---- MODULE Spec2Model ----
(***************************************************************************)
(* twat-hatch: the template engine (TemplateEngine.apply_theme) and the    *)
(* package initializer (PackageInitializer.initialize_package /            *)
(* initialize_all) of src/twat_hatch/hatch.py, the module the command line *)
(* (__main__.py) imports.                                                  *)
(*                                                                         *)
(* Strings are sequences of tokens.  A token stands for a run of           *)
(* characters that the code never looks into: "hidden" for the six letters *)
(* of the marker, "." for one dot, "__package_name__" for the placeholder, *)
(* "-" and "_" for the two separators, any other token for a run of        *)
(* letters.  A path is a sequence of segments.                             *)
(***************************************************************************)
EXTENDS Naturals, Sequences, FiniteSets, TLC

VARIABLES
    config,        \* PackageConfig: packages, plugin_host, min_python, max_python,
                   \* use_mkdocs, use_vcs, github_username
    store,         \* the themes directory: theme name -> its directory (Dir or NoDir)
    files,         \* the output tree: path of a file -> its content
    dirs,          \* the output tree: the directories that exist
    pc,            \* position of the running call
    phase,         \* initialize_all: "host" during the host-first call, "loop" in the for loop
    idx,           \* initialize_all: index of the for loop over config.packages
    name,          \* initialize_package: its argument
    context,       \* initialize_package: the render context built by _get_context
    theme_name,    \* apply_theme: its argument
    todo,          \* apply_theme: the template files rglob has still to yield
    template_file, \* apply_theme: the template of the current iteration (relative path)
    parts,         \* apply_theme: the list `parts` after the rewriting loop
    output_path,   \* apply_theme: output_path of the current iteration
    exc,           \* the exception that left the running call, or NoExc
    calls,         \* one record per initialize_package call made so far
    steps,         \* the steps the current initialize_package call has run, in order
    trail,         \* what the current apply_theme call has done, template by template
    data           \* the input of a loader: the TOML data that from_toml reads, the
                   \* options and locals of the init command

vars == <<config, store, files, dirs, pc, phase, idx, name, context, theme_name,
          todo, template_file, parts, output_path, exc, calls, steps, trail, data>>

(***************************************************************************)
(* Bounds of the model.                                                    *)
(***************************************************************************)
MaxStemLen == 3      \* tokens before ".j2" in a generated file name
MaxDirLen == 2       \* tokens in a generated directory name
MaxPackages == 2     \* length of config.packages
MaxTemplates == 3    \* template files in a generated theme

\* plugin_host None (and the empty string, which the code's truth tests treat alike)
None == <<>>
\* a theme directory that does not exist
NoDir == [exists |-> FALSE, templates |-> {}]
Dir(S) == [exists |-> TRUE, templates |-> S]
\* no exception
NoExc == [type |-> "none", origin |-> "none"]

(***************************************************************************)
(* Strings.                                                                *)
(***************************************************************************)
Hidden == <<"hidden", ".">>
PackageName == <<"__package_name__">>
Dot == <<".">>
J2 == <<".", "j2">>

StartsWith(s, prefix) ==
    /\ Len(s) >= Len(prefix)
    /\ SubSeq(s, 1, Len(prefix)) = prefix

EndsWith(s, suffix) ==
    /\ Len(s) >= Len(suffix)
    /\ SubSeq(s, Len(s) - Len(suffix) + 1, Len(s)) = suffix

\* `old in s`
Contains(s, old) ==
    \E k \in 1..Len(s) : StartsWith(SubSeq(s, k, Len(s)), old)

\* str.replace(old, new): every non-overlapping occurrence, left to right
RECURSIVE Replace(_, _, _)
Replace(s, old, new) ==
    IF Len(s) < Len(old) THEN s
    ELSE IF SubSeq(s, 1, Len(old)) = old
         THEN new \o Replace(SubSeq(s, Len(old) + 1, Len(s)), old, new)
         ELSE <<Head(s)>> \o Replace(Tail(s), old, new)

\* name.replace("-", "_")
ImportName(n) == Replace(n, <<"-">>, <<"_">>)

(***************************************************************************)
(* Paths.                                                                  *)
(***************************************************************************)
\* the body of the loop over `parts` for one part
RewritePart(part, import_name) ==
    IF StartsWith(part, Hidden) THEN Replace(part, Hidden, Dot)
    ELSE IF Contains(part, PackageName) THEN Replace(part, PackageName, import_name)
    ELSE part

RewriteParts(rel, import_name) ==
    [k \in 1..Len(rel) |-> RewritePart(rel[k], import_name)]

\* Path(*parts): pathlib drops the segments that are "."
RECURSIVE PathOf(_)
PathOf(ps) ==
    IF ps = <<>> THEN <<>>
    ELSE IF Head(ps) = Dot THEN PathOf(Tail(ps))
    ELSE <<Head(ps)>> \o PathOf(Tail(ps))

\* PurePath.suffix of a file name: from the last dot, when that dot is neither
\* the first nor the last character of the name
LastDot(nm) ==
    IF \E k \in 1..Len(nm) : nm[k] = "."
    THEN CHOOSE k \in 1..Len(nm) : nm[k] = "." /\ \A j \in (k + 1)..Len(nm) : nm[j] # "."
    ELSE 0

Suffix(nm) ==
    IF 1 < LastDot(nm) /\ LastDot(nm) < Len(nm)
    THEN SubSeq(nm, LastDot(nm), Len(nm))
    ELSE <<>>

\* PurePath.with_suffix(""): the name without its suffix
StripSuffix(nm) == SubSeq(nm, 1, Len(nm) - Len(Suffix(nm)))

\* rel_path.with_suffix("") of a path; <<>> stands for a result that names no
\* file (an empty path, or a name stripped down to "."): with_suffix raises
\* ValueError, or the write to the resulting directory path fails
WithSuffixEmpty(p) ==
    IF p = <<>> \/ StripSuffix(p[Len(p)]) = Dot THEN <<>>
    ELSE [k \in 1..Len(p) |-> IF k = Len(p) THEN StripSuffix(p[k]) ELSE p[k]]

\* target_dir / rel_path.with_suffix("")
OutputPath(target_dir, ps) ==
    IF WithSuffixEmpty(PathOf(ps)) = <<>> THEN <<>>
    ELSE target_dir \o WithSuffixEmpty(PathOf(ps))

(***************************************************************************)
(* The inputs of the path rewriting.                                       *)
(***************************************************************************)
Alphabet == {"hidden", ".", "__package_name__", "x"}

SeqsUpTo(S, n) == UNION {[1..k -> S] : k \in 0..n}

\* names a directory entry can have: not empty, not "." and not ".."
DirNames == SeqsUpTo(Alphabet, MaxDirLen) \ {<<>>, <<".">>, <<".", ".">>}

\* names rglob("*.j2") yields
TemplateNames == {stem \o J2 : stem \in SeqsUpTo(Alphabet, MaxStemLen)}

RelPaths == {<<f>> : f \in TemplateNames} \cup (DirNames \X TemplateNames)

ImportNames == {<<"acme", "_", "tool">>}

(***************************************************************************)
(* The file system under out_dir.                                          *)
(***************************************************************************)
Empty == <<>>

Parent(p) == SubSeq(p, 1, Len(p) - 1)

\* a directory and every directory above it, out_dir excluded
Ancestors(d) == {SubSeq(d, 1, k) : k \in 1..Len(d)}

\* mkdir(parents=True, exist_ok=True) fails when a file is in the way
MkdirBlocked(d) == \E q \in Ancestors(d) : q \in DOMAIN files

Mkdir(d) == dirs \cup Ancestors(d)

\* write_text: create or overwrite
WriteTextNewOnly(f, p, c) == IF p \in DOMAIN f THEN f ELSE f @@ (p :> c)
WriteTextKeep(f, p, c) == [q \in DOMAIN f \cup {p} |-> IF q \in DOMAIN f THEN f[q] ELSE c]
WriteText(f, p, c) == [q \in DOMAIN f \cup {p} |-> IF q = p THEN c ELSE f[q]]

\* touch(): create an empty file, leave an existing one as it is
TouchTruncates(f, p) == [q \in DOMAIN f \cup {p} |-> IF q = p THEN Empty ELSE f[q]]
Touch(f, p) == IF p \in DOMAIN f THEN f ELSE WriteText(f, p, Empty)

\* render_template(f"{theme_name}/{template}", context): the text depends on the
\* template and on the context, which is one per package
Render(theme, template, ctx) == <<theme, template, ctx.name>>

\* render receives the entries of the context as keyword arguments: the
\* caller's dictionary is the same after the call
ContextAfterRenderCleared(ctx) == [ctx EXCEPT !.name = <<>>]
ContextAfterRender(ctx) == ctx

(***************************************************************************)
(* Configurations and theme stores.                                        *)
(***************************************************************************)
Names == {<<"host">>, <<"host", "-", "a">>}

ThemeNames == {"default", "package", "plugin", "plugin_host", "mkdocs"}

\* a Python version is <<major, minor>>; max_python is optional
Python310 == <<3, 10>>
Python312 == <<3, 12>>
Python400 == <<4, 0>>

Configs ==
    [packages : SeqsUpTo(Names, MaxPackages),
     plugin_host : Names \cup {None},
     min_python : {Python310},
     max_python : {None},
     use_mkdocs : BOOLEAN,
     use_vcs : BOOLEAN,
     github_username : {<<>>, <<"user">>}]

GitIgnoreHidden == <<<<"hidden", ".", "gitignore", ".", "j2">>>>
GitIgnoreDot == <<<<".", "gitignore", ".", "j2">>>>
InitPy == <<<<"src">>, <<"__package_name__">>, <<"__init__", ".", "py", ".", "j2">>>>
VersionPy == <<<<"src">>, <<"__package_name__">>, <<"__version__", ".", "py", ".", "j2">>>>
ReadMe == <<<<"README", ".", "md", ".", "j2">>>>
NamedPy == <<<<"src">>, <<"host", "_", "a">>, <<"__init__", ".", "py", ".", "j2">>>>

Catalog == {GitIgnoreHidden, GitIgnoreDot, InitPy, VersionPy, ReadMe, NamedPy}

\* a store with every theme of initialize_package in it
FullStore ==
    [t \in ThemeNames |->
        CASE t = "default" -> Dir({GitIgnoreHidden, InitPy})
          [] t = "package" -> Dir({ReadMe})
          [] t = "plugin" -> Dir({InitPy})
          [] t = "plugin_host" -> Dir({VersionPy})
          [] t = "mkdocs" -> Dir({GitIgnoreDot})]

\* the stores of the runs: complete, or with one theme directory missing
Stores ==
    {FullStore} \cup
    {[t \in ThemeNames |-> IF t = m THEN NoDir ELSE FullStore[t]] : m \in ThemeNames}

\* every order in which rglob can yield the files of a set
Orders(S) ==
    {o \in [1..Cardinality(S) -> S] : \A a, b \in 1..Cardinality(S) : a # b => o[a] # o[b]}

(***************************************************************************)
(* _get_context.                                                           *)
(***************************************************************************)
PluginImportName(cfg, n) ==
    LET import_name == ImportName(n)
        plugin_host_prefix == cfg.plugin_host \o <<"_">>
        rest == SubSeq(import_name, Len(cfg.plugin_host) + 1, Len(import_name))
    IN  IF cfg.plugin_host = None THEN import_name
        ELSE IF StartsWith(import_name, plugin_host_prefix)
             THEN SubSeq(import_name, Len(plugin_host_prefix) + 1, Len(import_name))
        ELSE IF StartsWith(import_name, cfg.plugin_host)
             THEN IF StartsWith(rest, <<"-">>) \/ StartsWith(rest, <<"_">>)
                  THEN Tail(rest) ELSE rest
        ELSE import_name

GetContext(cfg, n) ==
    [name |-> n,
     import_name |-> ImportName(n),
     plugin_import_name |-> PluginImportName(cfg, n),
     plugin_host |-> cfg.plugin_host]

NoContext == [name |-> <<>>, import_name |-> <<>>, plugin_import_name |-> <<>>,
              plugin_host |-> None]

\* pkg_path = out_dir / context["import_name"]
PkgPathByName(ctx) == <<ctx.name>>
PkgPath(ctx) == <<ctx.import_name>>

\* src_path = pkg_path / "src" / context["import_name"]
SrcPath(ctx) == <<ctx.import_name, <<"src">>, ctx.import_name>>

VersionFile(ctx) == SrcPath(ctx) \o <<<<"__version__", ".", "py">>>>

\* PackageConfig.python_version_info, read by _get_context: max_python must
\* have the major version of min_python
Major(v) == v[1]

PythonVersionInfoRaises(cfg) ==
    /\ cfg.max_python # None
    /\ Major(cfg.max_python) # Major(cfg.min_python)

(***************************************************************************)
(* Theme selection of initialize_package.                                  *)
(***************************************************************************)
RoleThemes == {"package", "plugin", "plugin_host"}

RoleThemePluginOnly(cfg, n) == IF cfg.plugin_host # None THEN "plugin" ELSE "package"
RoleTheme(cfg, n) ==
    IF cfg.plugin_host # None
    THEN IF n = cfg.plugin_host THEN "plugin_host" ELSE "plugin"
    ELSE "package"

\* the theme initialize_package applies first
FirstThemeRole(cfg, n) == RoleTheme(cfg, n)
FirstTheme(cfg, n) == "default"

\* initialize_all: the plugin host goes first when it is specified and listed
HostFirstNever(cfg) == FALSE
HostFirst(cfg) ==
    /\ cfg.plugin_host # None
    /\ \E k \in 1..Len(cfg.packages) : cfg.packages[k] = cfg.plugin_host

\* the for loop of initialize_all skips the plugin host
LoopTakesAll(cfg, n) == TRUE
LoopTakes(cfg, n) == n # cfg.plugin_host

(***************************************************************************)
(* Exceptions, calls and returns.                                          *)
(***************************************************************************)
Exception(type, origin) == [type |-> type, origin |-> origin]

NewCall(n) ==
    [name |-> n, themes |-> <<>>, status |-> "running", git_failed |-> FALSE,
     gh |-> "none"]

SetLast(cs, field, v) ==
    [k \in 1..Len(cs) |-> IF k = Len(cs) THEN [cs[k] EXCEPT ![field] = v] ELSE cs[k]]

InPackage == phase \in {"host", "loop"}

\* an exception leaves the running call: nothing in initialize_package or
\* initialize_all catches it
RaiseAndGoOn(e) ==
    /\ exc' = e
    /\ pc' = "for"
    /\ calls' = IF InPackage /\ calls # <<>> THEN SetLast(calls, "status", "Failed") ELSE calls

Raise(e) ==
    /\ exc' = e
    /\ pc' = "raised"
    /\ calls' = IF InPackage /\ calls # <<>> THEN SetLast(calls, "status", "Failed") ELSE calls

\* initialize_package returns to initialize_all
Return(cs) ==
    /\ calls' = SetLast(cs, "status", "Success")
    /\ pc' = "for"
    /\ phase' = "loop"
    /\ idx' = IF phase = "host" THEN 1 ELSE idx + 1

\* initialize_all calls initialize_package(n)
Call(n) ==
    /\ calls' = Append(calls, NewCall(n))
    /\ name' = n
    /\ pc' = "initialize_package"
    /\ steps' = <<>>

(***************************************************************************)
(* TemplateEngine.apply_theme.                                             *)
(***************************************************************************)
TemplateVars == <<template_file, parts, output_path>>
AllVars == <<data, config, store, phase, idx, name, context>>

\* what the environment can do to one iteration of the loop
Outcomes == {"ok", "mkdir fails", "render fails", "write fails", "write fails midway"}

\* the rest of the iteration once a template has been handled
RemainingNone(t) == <<>>
Remaining(t) == Tail(t)

\* the call sites of apply_theme in initialize_package, in order
AfterThemeAlwaysMkdocs(cfg, theme) ==
    IF theme = "default" THEN "role"
    ELSE IF theme \in RoleThemes THEN "mkdocs"
    ELSE "version_file"
AfterTheme(cfg, theme) ==
    IF theme = "default" THEN "role"
    ELSE IF theme \in RoleThemes /\ cfg.use_mkdocs THEN "mkdocs"
    ELSE "version_file"

\* theme_dir.exists()
ThemeDirAlwaysExists(st, theme) == TRUE
ThemeDirExists(st, theme) == st[theme].exists

\* lines 66-69: resolve the theme directory, then start the rglob
ApplyThemeBegin ==
    /\ pc = "apply_theme"
    /\ trail' = <<>>
    /\ IF ~ThemeDirExists(store, theme_name)
       THEN /\ Raise(Exception("FileNotFoundError", "theme"))
            /\ UNCHANGED todo
       ELSE /\ todo' \in Orders(store[theme_name].templates)
            /\ pc' = "template"
            /\ UNCHANGED <<exc, calls>>
    /\ UNCHANGED <<AllVars, files, dirs, theme_name, TemplateVars, steps>>

\* lines 71-94: one iteration of the loop over the template files
ApplyTemplate ==
    /\ pc = "template"
    /\ todo # <<>>
    /\ LET t == Head(todo)
           ps == RewriteParts(t, context.import_name)
           out == OutputPath(PkgPath(context), ps)
           text == Render(theme_name, t, context)
           Fail(e, how) ==
               /\ Raise(e)
               /\ trail' = Append(trail, [template |-> t, path |-> out, did |-> how])
               /\ UNCHANGED todo
       IN  /\ template_file' = t
           /\ parts' = ps
           /\ output_path' = out
           /\ \E o \in Outcomes :
                IF out = <<>>
                THEN /\ Fail(Exception("ValueError", "with_suffix"), "nothing")
                     /\ UNCHANGED <<files, dirs, context>>
                ELSE IF o = "mkdir fails" \/ MkdirBlocked(Parent(out))
                THEN /\ Fail(Exception("OSError", "mkdir"), "nothing")
                     /\ UNCHANGED <<files, dirs, context>>
                ELSE IF o = "render fails"
                THEN /\ Fail(Exception("TemplateError", "render"), "mkdir")
                     /\ dirs' = Mkdir(Parent(out))
                     /\ UNCHANGED <<files, context>>
                ELSE IF o = "write fails" \/ out \in dirs
                THEN /\ Fail(Exception("OSError", "write"), "rendered")
                     /\ dirs' = Mkdir(Parent(out))
                     /\ context' = ContextAfterRender(context)
                     /\ UNCHANGED files
                ELSE IF o = "write fails midway"
                THEN /\ Fail(Exception("OSError", "write"), "truncated")
                     /\ dirs' = Mkdir(Parent(out))
                     /\ files' = WriteText(files, out, Empty)
                     /\ context' = ContextAfterRender(context)
                ELSE /\ dirs' = Mkdir(Parent(out))
                     /\ files' = WriteText(files, out, text)
                     /\ context' = ContextAfterRender(context)
                     /\ trail' = Append(trail, [template |-> t, path |-> out, did |-> "written"])
                     /\ todo' = Remaining(todo)
                     /\ UNCHANGED <<pc, exc, calls>>
    /\ UNCHANGED <<data, config, store, phase, idx, name, theme_name, steps>>

\* the loop is over: apply_theme returns to its call site
ApplyThemeEnd ==
    /\ pc = "template"
    /\ todo = <<>>
    /\ IF InPackage
       THEN /\ pc' = AfterTheme(config, theme_name)
            /\ calls' = SetLast(calls, "themes", Append(calls[Len(calls)].themes, theme_name))
            /\ steps' = Append(steps, <<"theme", theme_name>>)
       ELSE /\ pc' = "returned"
            /\ UNCHANGED <<calls, steps>>
    /\ UNCHANGED <<AllVars, files, dirs, theme_name, todo, TemplateVars, exc, trail>>

(***************************************************************************)
(* PackageInitializer.initialize_package.                                  *)
(***************************************************************************)
IOOutcomes == {"ok", "OSError"}

\* lines 402-414: context, package source directory, call of the base theme
InitializePackage ==
    /\ pc = "initialize_package"
    /\ \E o \in IOOutcomes :
         IF PythonVersionInfoRaises(config)
         THEN /\ Raise(Exception("ValueError", "python_version_info"))
              /\ UNCHANGED <<context, dirs, theme_name>>
         ELSE IF o = "OSError" \/ MkdirBlocked(SrcPath(GetContext(config, name)))
         THEN /\ context' = GetContext(config, name)
              /\ Raise(Exception("OSError", "src_path"))
              /\ UNCHANGED <<dirs, theme_name>>
         ELSE /\ context' = GetContext(config, name)
              /\ dirs' = Mkdir(SrcPath(context'))
              /\ theme_name' = FirstTheme(config, name)
              /\ pc' = "apply_theme"
              /\ UNCHANGED <<exc, calls>>
    /\ UNCHANGED <<data, config, store, files, phase, idx, name, todo, TemplateVars, steps, trail>>

\* lines 416-426: call of the role theme
ApplyRoleTheme ==
    /\ pc = "role"
    /\ theme_name' = RoleTheme(config, name)
    /\ pc' = "apply_theme"
    /\ UNCHANGED <<AllVars, files, dirs, todo, TemplateVars, exc, calls, steps, trail>>

\* lines 428-430: call of the optional theme
ApplyMkdocsTheme ==
    /\ pc = "mkdocs"
    /\ theme_name' = "mkdocs"
    /\ pc' = "apply_theme"
    /\ UNCHANGED <<AllVars, files, dirs, todo, TemplateVars, exc, calls, steps, trail>>

\* where initialize_package goes after the git steps
AfterGit(cfg) == IF cfg.github_username # <<>> THEN "gh" ELSE "return"

\* the next position inside initialize_package, "return" being its end
GoTo(next, cs) ==
    IF next = "return" THEN Return(cs)
    ELSE /\ pc' = next
         /\ calls' = cs
         /\ UNCHANGED <<phase, idx>>

\* line 436: the use_vcs test
AfterVersionFileAlways(cfg) == "git init"
AfterVersionFile(cfg) == IF cfg.use_vcs THEN "git init" ELSE "return"

\* lines 432-436 and 320-330: _create_version_file, then the use_vcs test
CreateVersionFile ==
    /\ pc = "version_file"
    /\ \E o \in IOOutcomes :
         IF o = "OSError" \/ MkdirBlocked(SrcPath(context)) \/ VersionFile(context) \in dirs
         THEN /\ Raise(Exception("OSError", "version_file"))
              /\ UNCHANGED <<files, dirs, steps, phase, idx>>
         ELSE /\ dirs' = Mkdir(SrcPath(context))
              /\ files' = Touch(files, VersionFile(context))
              /\ steps' = Append(steps, <<"version_file", "ok">>)
              /\ exc' = exc
              /\ GoTo(AfterVersionFile(config), calls)
    /\ UNCHANGED <<data, config, store, name, context, theme_name, todo, TemplateVars, trail>>

\* what a subprocess.run(..., check=True) can end in
RunOutcomes == {"ok", "CalledProcessError", "FileNotFoundError"}

\* the except clauses of the git steps
GitCaughtNarrow == {"CalledProcessError"}
GitCaught == {"CalledProcessError", "FileNotFoundError"}

\* the except clause of _create_github_repo
GhCaught == {"CalledProcessError"}

\* one git subprocess inside a try block: `next` when it succeeds, `handler`
\* when its exception is caught
GitStep(at, next, handler) ==
    /\ pc = at
    /\ \E o \in RunOutcomes :
         /\ steps' = Append(steps, <<at, IF o = "ok" THEN "ok" ELSE "failed">>)
         /\ IF o = "ok"
            THEN /\ GoTo(next, calls)
                 /\ exc' = exc
            ELSE IF o \in GitCaught
            THEN /\ GoTo(handler, SetLast(calls, "git_failed", TRUE))
                 /\ exc' = exc
            ELSE /\ Raise(Exception(o, at))
                 /\ UNCHANGED <<phase, idx>>
    /\ UNCHANGED <<data, config, store, files, dirs, name, context, theme_name, todo,
                   TemplateVars, trail>>

\* lines 273-293: _init_git_repo
GitInitGivesUp == GitStep("git init", "git branch", AfterGit(config))
GitInit == GitStep("git init", "git branch", "git add")
GitBranch == GitStep("git branch", "git add", "git add")

\* lines 439-458: stage and commit
GitAdd == GitStep("git add", "git commit", AfterGit(config))
GitCommit == GitStep("git commit", AfterGit(config), AfterGit(config))

\* lines 459-461 and 295-318: _create_github_repo
CreateGithubRepo ==
    /\ pc = "gh"
    /\ \E o \in RunOutcomes :
         /\ steps' = Append(steps, <<"gh", o>>)
         /\ IF o = "ok"
            THEN /\ Return(SetLast(calls, "gh", "ok"))
                 /\ exc' = exc
            ELSE IF o \in GhCaught
            THEN /\ Return(SetLast(calls, "gh", "failed"))
                 /\ exc' = exc
            ELSE /\ exc' = Exception(o, "gh")
                 /\ pc' = "raised"
                 /\ calls' = SetLast(SetLast(calls, "gh", "failed"), "status", "Failed")
                 /\ UNCHANGED <<phase, idx>>
    /\ UNCHANGED <<data, config, store, files, dirs, name, context, theme_name, todo,
                   TemplateVars, trail>>

(***************************************************************************)
(* PackageInitializer.initialize_all.                                      *)
(***************************************************************************)
\* lines 470-476: the plugin host first
InitializeAll ==
    /\ pc = "initialize_all"
    /\ IF HostFirst(config)
       THEN /\ Call(config.plugin_host)
            /\ phase' = "host"
            /\ UNCHANGED idx
       ELSE /\ pc' = "for"
            /\ phase' = "loop"
            /\ idx' = 1
            /\ UNCHANGED <<calls, name, steps>>
    /\ UNCHANGED <<data, config, store, files, dirs, context, theme_name, todo, TemplateVars,
                   exc, trail>>

\* lines 479-481: one iteration of the loop over config.packages
ForPackage ==
    /\ pc = "for"
    /\ IF idx > Len(config.packages)
       THEN /\ pc' = "done"
            /\ UNCHANGED <<calls, name, steps, idx>>
       ELSE IF LoopTakes(config, config.packages[idx])
       THEN /\ Call(config.packages[idx])
            /\ UNCHANGED idx
       ELSE /\ idx' = idx + 1
            /\ UNCHANGED <<pc, calls, name, steps>>
    /\ UNCHANGED <<data, config, store, files, dirs, phase, context, theme_name, todo,
                   TemplateVars, exc, trail>>

(***************************************************************************)
(* The path rewriting of apply_theme on its own (lines 72-84).             *)
(***************************************************************************)
RewritePath ==
    /\ pc = "rewrite"
    /\ parts' = RewriteParts(template_file, context.import_name)
    /\ output_path' = OutputPath(<<>>, parts')
    /\ pc' = "rewritten"
    /\ UNCHANGED <<AllVars, files, dirs, theme_name, todo, template_file, exc, calls,
                   steps, trail>>

\* the rewriting applied to a path it has produced, taken as the relative
\* path of a template
RewriteAgain ==
    /\ pc = "rewritten"
    /\ output_path # <<>>
    /\ template_file' = output_path
    /\ parts' = RewriteParts(output_path, context.import_name)
    /\ output_path' = OutputPath(<<>>, parts')
    /\ pc' = "rewritten twice"
    /\ UNCHANGED <<AllVars, files, dirs, theme_name, todo, exc, calls, steps, trail>>

(***************************************************************************)
(* PackageInitializer.__init__ with a config_path (lines 248-265).         *)
(***************************************************************************)
\* what PackageConfig.from_toml can end in: the file is missing, a version
\* string does not parse, a required field is missing
LoadOutcomes == {"ok", "FileNotFoundError", "ValueError", "ValidationError"}

Construct ==
    /\ pc = "__init__"
    /\ \E o \in LoadOutcomes :
         IF o = "ok"
         THEN /\ pc' = "initialize_all"
              /\ UNCHANGED <<exc, calls>>
         ELSE Raise(Exception(o, "from_toml"))
    /\ UNCHANGED <<AllVars, files, dirs, theme_name, todo, TemplateVars, steps, trail>>

(***************************************************************************)
(* Specifications.                                                         *)
(***************************************************************************)
NoConfig ==
    [packages |-> <<>>, plugin_host |-> None, min_python |-> Python310,
     max_python |-> None, use_mkdocs |-> FALSE, use_vcs |-> FALSE,
     github_username |-> <<>>]

\* no loader input: the configuration is given
NoData == [keys |-> {}]

Idle ==
    /\ data = NoData
    /\ files = <<>>
    /\ dirs = {}
    /\ idx = 0
    /\ name = <<>>
    /\ todo = <<>>
    /\ parts = <<>>
    /\ output_path = <<>>
    /\ exc = NoExc
    /\ calls = <<>>
    /\ steps = <<>>
    /\ trail = <<>>

\* a run of initialize_all
Init ==
    /\ config \in Configs
    /\ store \in Stores
    /\ pc = "initialize_all"
    /\ phase = "start"
    /\ context = NoContext
    /\ theme_name = "none"
    /\ template_file = <<>>
    /\ Idle

Next ==
    \/ InitializeAll
    \/ ForPackage
    \/ InitializePackage
    \/ ApplyThemeBegin
    \/ ApplyTemplate
    \/ ApplyThemeEnd
    \/ ApplyRoleTheme
    \/ ApplyMkdocsTheme
    \/ CreateVersionFile
    \/ GitInit
    \/ GitBranch
    \/ GitAdd
    \/ GitCommit
    \/ CreateGithubRepo

Spec == Init /\ [][Next]_vars

\* the `create` command: construction from a configuration file, then
\* initialize_all; two of the names differ only in their separator
CreateNames == {<<"host", "-", "a">>, <<"host", "_", "a">>}

CreateConfigs ==
    [packages : SeqsUpTo(CreateNames, MaxPackages),
     plugin_host : CreateNames \cup {None},
     min_python : {Python310},
     max_python : {None, Python312, Python400},
     use_mkdocs : BOOLEAN,
     use_vcs : BOOLEAN,
     github_username : {<<>>, <<"user">>}]

InitCreate ==
    /\ config \in CreateConfigs
    /\ store = FullStore
    /\ pc = "__init__"
    /\ phase = "start"
    /\ context = NoContext
    /\ theme_name = "none"
    /\ template_file = <<>>
    /\ Idle

NextCreate ==
    \/ Construct
    \/ Next

SpecCreate == InitCreate /\ [][NextCreate]_vars

\* one apply_theme call into an empty target directory
GeneratedThemes == {S \in SUBSET Catalog : Cardinality(S) <= MaxTemplates}

InitTheme ==
    /\ config = NoConfig
    /\ \E S \in GeneratedThemes :
         store = [t \in ThemeNames |-> IF t = "default" THEN Dir(S) ELSE NoDir]
    /\ pc = "apply_theme"
    /\ phase = "apply_theme"
    /\ \E n \in Names : context = GetContext(config, n)
    /\ theme_name = "default"
    /\ template_file = <<>>
    /\ Idle

NextTheme ==
    \/ ApplyThemeBegin
    \/ ApplyTemplate
    \/ ApplyThemeEnd

SpecTheme == InitTheme /\ [][NextTheme]_vars

\* a run of initialize_all over a list of one package: one call of
\* initialize_package, from its first line to its return
InitPackage ==
    /\ config \in {c \in Configs : Len(c.packages) = 1}
    /\ store \in Stores
    /\ pc = "initialize_all"
    /\ phase = "start"
    /\ context = NoContext
    /\ theme_name = "none"
    /\ template_file = <<>>
    /\ Idle

SpecPackage == InitPackage /\ [][Next]_vars

\* one path rewriting
InitPath ==
    /\ config = NoConfig
    /\ store = [t \in ThemeNames |-> NoDir]
    /\ pc = "rewrite"
    /\ phase = "rewrite"
    /\ \E i \in ImportNames :
         context = [name |-> i, import_name |-> i, plugin_import_name |-> i,
                    plugin_host |-> None]
    /\ theme_name = "none"
    /\ template_file \in RelPaths
    /\ Idle

NextPath ==
    \/ RewritePath
    \/ RewriteAgain

SpecPath == InitPath /\ [][NextPath]_vars

(***************************************************************************)
(* PackageConfig.from_toml (lines 169-229) and the validation of the       *)
(* PackageConfig model (lines 97-142).  The TOML data is the set of the    *)
(* keys the file has and a value for each; dict.get gives None for a key   *)
(* the file does not have.                                                 *)
(***************************************************************************)
TomlKeys ==
    {"packages", "author_name", "author_email", "github_username",
     "min_python", "max_python", "license", "development_status"}

TomlFiles ==
    [exists : BOOLEAN,
     keys : SUBSET TomlKeys,
     packages : {<< <<"host">> >>},
     author_name : {<<"name">>},
     author_email : {<<"email">>},
     github_username : {<<"user">>},
     min_python : {Python312},
     max_python : {Python312},
     license : {<<"MIT">>},
     development_status : {<<"beta">>}]

\* section.get(key, default)
Get(d, k, default) == IF k \in d.keys THEN d[k] ELSE default

\* PyVer.parse: None is Python 3.10, a version is itself
PyVerParse(version) == IF version = None THEN Python310 ELSE version

\* lines 198-227: the dictionary handed to the model
ConfigDict(d) ==
    [packages |-> Get(d, "packages", <<>>),
     author_name |-> Get(d, "author_name", None),
     author_email |-> Get(d, "author_email", None),
     github_username |-> Get(d, "github_username", None),
     min_python |-> PyVerParse(Get(d, "min_python", None)),
     max_python |-> IF Get(d, "max_python", None) # None
                    THEN PyVerParse(Get(d, "max_python", None)) ELSE None,
     license |-> Get(d, "license", None),
     development_status |-> Get(d, "development_status", None)]

\* the fields declared `str = Field(...)`: None is not a str
StrFields ==
    {"author_name", "author_email", "github_username", "min_python", "license",
     "development_status"}

\* the fields the model rejects
Invalid(cd) == {k \in StrFields : cd[k] = None}

LoadedConfig(cd) ==
    [packages |-> cd.packages, plugin_host |-> None, min_python |-> cd.min_python,
     max_python |-> cd.max_python, use_mkdocs |-> FALSE, use_vcs |-> FALSE,
     github_username |-> cd.github_username]

FromToml ==
    /\ pc = "from_toml"
    /\ IF ~data.exists
       THEN /\ Raise(Exception("FileNotFoundError", "from_toml"))
            /\ UNCHANGED config
       ELSE IF Invalid(ConfigDict(data)) # {}
       THEN /\ Raise(Exception("ValidationError", "from_toml"))
            /\ UNCHANGED config
       ELSE /\ config' = LoadedConfig(ConfigDict(data))
            /\ pc' = "loaded"
            /\ UNCHANGED <<exc, calls>>
    /\ UNCHANGED <<data, store, phase, idx, name, context, files, dirs, theme_name,
                   todo, TemplateVars, steps, trail>>

\* the loaded configuration is the one __init__ keeps: initialize_all follows
Loaded ==
    /\ pc = "loaded"
    /\ pc' = "initialize_all"
    /\ UNCHANGED <<AllVars, files, dirs, theme_name, todo, TemplateVars, exc, calls,
                   steps, trail>>

InitLoad ==
    /\ data \in TomlFiles
    /\ config = NoConfig
    /\ store = FullStore
    /\ pc = "from_toml"
    /\ phase = "start"
    /\ context = NoContext
    /\ theme_name = "none"
    /\ template_file = <<>>
    /\ files = <<>>
    /\ dirs = {}
    /\ idx = 0
    /\ name = <<>>
    /\ todo = <<>>
    /\ parts = <<>>
    /\ output_path = <<>>
    /\ exc = NoExc
    /\ calls = <<>>
    /\ steps = <<>>
    /\ trail = <<>>

NextLoad ==
    \/ FromToml
    \/ Loaded

SpecLoad == InitLoad /\ [][NextLoad]_vars

(***************************************************************************)
(* The init command (__main__.py, lines 189-313) and                       *)
(* ConfigurationGenerator.generate_config (config.py, lines 271-358).      *)
(* `data` holds the locals of init: its options, then min_ver, max_ver and *)
(* what the prompts answered.  `context` is the dictionary of              *)
(* generate_config: a function from the keys it has to their values.       *)
(***************************************************************************)
True == <<"True">>
False == <<"False">>
EmptyList == <<"[]">>

\* an option written in decimal notation, which from_cli_input rejects
Dotted == <<"3.12">>

PackageTypes == {"package", "plugin", "plugin-host"}

\* the options that make the command non-interactive when one is given
OptionKeys ==
    {"name", "author_name", "author_email", "github_username", "min_python",
     "max_python", "license", "development_status", "use_mkdocs", "use_vcs",
     "plugin_host"}

InitOptions ==
    [type : PackageTypes,
     name : {None, <<"pkg">>},
     author_name : {None, <<"name">>},
     author_email : {None, <<"email">>},
     github_username : {None, <<"user">>},
     min_python : {None, Python312},
     max_python : {None, Python312, Python400, Dotted},
     license : {None, <<"MIT">>},
     development_status : {None, <<"beta">>},
     use_mkdocs : {None, True},
     use_vcs : {None, False},
     plugin_host : {None, <<"host">>},
     min_ver : {None},
     max_ver : {None},
     interactive : {FALSE},
     asked_max : {FALSE}]

\* PyVer.from_cli_input: None is Python 3.10
FromCliInput(version) == IF version = None THEN Python310 ELSE version

\* PyVer.__str__: f"{major}.{minor:02d}"
Digits(n) ==
    CASE n = 0 -> "00"
      [] n = 3 -> "3"
      [] n = 4 -> "4"
      [] n = 10 -> "10"
      [] n = 12 -> "12"

VersionStr(v) == <<Digits(v[1]), ".", IF v[2] = 0 THEN "00" ELSE Digits(v[2])>>

Number(d) ==
    CASE d = "00" -> 0
      [] d = "3" -> 3
      [] d = "4" -> 4
      [] d = "10" -> 10
      [] d = "12" -> 12

\* PyVer.parse of what a prompt returned: a "major.minor" string, or None
PyVerParseStr(version) ==
    PyVerParse(IF version = None THEN None ELSE <<Number(version[1]), Number(version[3])>>)

\* `str(max_ver) if max_ver else None`: a PyVer is always true
StrOrNone(ver) == IF ver # None THEN VersionStr(ver) ELSE None

\* lines 226-234: the versions of the options
InitParseVersions ==
    /\ pc = "init"
    /\ IF data.min_python = Dotted \/ data.max_python = Dotted
       THEN /\ pc' = "exit"
            /\ exc' = Exception("ValueError", "from_cli_input")
            /\ UNCHANGED data
       ELSE /\ data' = [data EXCEPT
                   !.min_ver = FromCliInput(data.min_python),
                   !.max_ver = IF data.max_python # None
                               THEN FromCliInput(data.max_python) ELSE None,
                   !.interactive = \A k \in OptionKeys : data[k] = None]
            /\ pc' = IF data'.interactive THEN "prompts" ELSE "generate_config"
            /\ UNCHANGED exc
    /\ UNCHANGED <<config, store, phase, idx, name, context, files, dirs, theme_name,
                   todo, TemplateVars, calls, steps, trail>>

\* what get_python_versions can return for max_python: None when the user
\* declines to give a maximum
MaxAnswers == {None, VersionStr(Python312)}

\* lines 259-276: the prompts give every local a value
InitPrompts ==
    /\ pc = "prompts"
    /\ \E max_python \in MaxAnswers :
         data' = [data EXCEPT
             !.name = <<"my", "-", "package">>,
             !.plugin_host = IF data.type = "plugin"
                             THEN <<"my", "-", "plugin", "-", "host">> ELSE data.plugin_host,
             !.author_name = <<"Your Name">>,
             !.author_email = <<"your.email@example.com">>,
             !.github_username = <<"yourusername">>,
             !.min_ver = PyVerParseStr(VersionStr(Python310)),
             !.max_ver = PyVerParseStr(max_python),
             !.asked_max = max_python # None,
             !.license = <<"MIT">>,
             !.development_status = <<"4 - Beta">>,
             !.use_mkdocs = False,
             !.use_vcs = True]
    /\ pc' = "generate_config"
    /\ UNCHANGED <<config, store, phase, idx, name, context, files, dirs, theme_name,
                   todo, TemplateVars, exc, calls, steps, trail>>

\* lines 280-294: the keyword arguments of generate_config
Kwargs(d) ==
    [k \in OptionKeys |->
        CASE k = "min_python" -> VersionStr(d.min_ver)
          [] k = "max_python" -> StrOrNone(d.max_ver)
          [] OTHER -> d[k]]

\* config.py, line 317: context.update(kwargs)
GenerateConfigUpdate ==
    /\ pc = "generate_config"
    /\ context' = Kwargs(data)
    /\ pc' = "python_version_info"
    /\ UNCHANGED <<data, config, store, phase, idx, name, files, dirs, theme_name,
                   todo, TemplateVars, exc, calls, steps, trail>>

\* config.py, lines 244-250: max_python must have the major of min_python
VersionInfoRaises(ctx) ==
    /\ ctx["max_python"] # None
    /\ ctx["max_python"][1] # ctx["min_python"][1]

\* config.py, lines 318-326; the ValueError is caught by init, which exits
GenerateConfigVersionInfo ==
    /\ pc = "python_version_info"
    /\ IF VersionInfoRaises(context)
       THEN /\ pc' = "exit"
            /\ exc' = Exception("ValueError", "_get_python_version_info")
       ELSE /\ pc' = "defaults"
            /\ UNCHANGED exc
    /\ UNCHANGED <<data, config, store, phase, idx, name, context, files, dirs,
                   theme_name, todo, TemplateVars, calls, steps, trail>>

\* ctx with ctx[k] = v when ctx has no key k
SetDefault(ctx, k, v) == IF k \in DOMAIN ctx THEN ctx ELSE ctx @@ (k :> v)

\* config.py, lines 329-350
WithDefaults(ctx, type) ==
    LET c1 == SetDefault(ctx, "name", <<"my", "-", "package">>)
        c2 == IF type = "plugin"
              THEN SetDefault(c1, "plugin_host", <<"my", "-", "plugin", "-", "host">>)
              ELSE c1
        c3 == SetDefault(c2, "min_python", VersionStr(Python310))
        c4 == SetDefault(c3, "license", <<"MIT">>)
        c5 == SetDefault(c4, "development_status", <<"4 - Beta">>)
        c6 == SetDefault(c5, "use_mkdocs", False)
        c7 == SetDefault(c6, "use_semver", True)
        c8 == SetDefault(c7, "use_vcs", True)
        c9 == SetDefault(c8, "dependencies", EmptyList)
        c10 == SetDefault(c9, "dev_dependencies", EmptyList)
    IN  SetDefault(c10, "plugin_dependencies", EmptyList)

\* config.py, lines 328-358: the defaults, then the rendering
GenerateConfigDefaults ==
    /\ pc = "defaults"
    /\ context' = WithDefaults(context, data.type)
    /\ pc' = "rendered"
    /\ UNCHANGED <<data, config, store, phase, idx, name, files, dirs, theme_name,
                   todo, TemplateVars, exc, calls, steps, trail>>

InitInit ==
    /\ data \in InitOptions
    /\ config = NoConfig
    /\ store = FullStore
    /\ pc = "init"
    /\ phase = "start"
    /\ context = <<>>
    /\ theme_name = "none"
    /\ template_file = <<>>
    /\ files = <<>>
    /\ dirs = {}
    /\ idx = 0
    /\ name = <<>>
    /\ todo = <<>>
    /\ parts = <<>>
    /\ output_path = <<>>
    /\ exc = NoExc
    /\ calls = <<>>
    /\ steps = <<>>
    /\ trail = <<>>

NextInit ==
    \/ InitParseVersions
    \/ InitPrompts
    \/ GenerateConfigUpdate
    \/ GenerateConfigVersionInfo
    \/ GenerateConfigDefaults

SpecInit == InitInit /\ [][NextInit]_vars

(***************************************************************************)
(* Properties.                                                             *)
(***************************************************************************)
Last(sq) == sq[Len(sq)]

IsRoleTheme(t) == t \in RoleThemes

Listed(n) == \E k \in 1..Len(config.packages) : config.packages[k] = n

Called(n) == \E k \in 1..Len(calls) : calls[k].name = n

Terminal == pc \in {"done", "raised"}

\* C1: when a plugin host is configured and listed, every call of
\* initialize_package for another name comes after the call for the host,
\* which is the first call and has returned successfully.
C1_HostBeforeOthers ==
    (config.plugin_host # None /\ Listed(config.plugin_host)) =>
        \A k \in 1..Len(calls) :
            calls[k].name # config.plugin_host =>
                /\ k > 1
                /\ calls[1].name = config.plugin_host
                /\ calls[1].status = "Success"

\* C1 witness: the host is listed second, and the package listed first has
\* been started after the host
C1_Witness ==
    /\ Len(config.packages) = 2
    /\ config.packages[2] = config.plugin_host
    /\ config.packages[1] # config.plugin_host
    /\ Len(calls) = 2
    /\ calls[1].name = config.plugin_host
    /\ calls[2].name = config.packages[1]

C3_PackageIsolation ==
    (Terminal /\ exc.origin \in {"mkdir", "render", "write"}) =>
        \A k \in 1..Len(config.packages) : Called(config.packages[k])

GitSteps == {"git init", "git branch", "git add", "git commit"}

\* C4: no exception of a git step leaves initialize_package: a call in which a
\* git step failed is never failed by it, every earlier such call has ended
\* in Success, and a run that ends normally has called every package of the
\* loop.
C4_GitFailureNonFatal ==
    /\ exc.origin \notin GitSteps
    /\ \A k \in 1..Len(calls) :
         calls[k].git_failed =>
            /\ calls[k].status = "Failed" => exc.origin = "gh"
            /\ k < Len(calls) => calls[k].status = "Success"
            /\ pc \in {"for", "done"} => calls[k].status = "Success"
    /\ pc = "done" =>
         \A k \in 1..Len(config.packages) :
            config.packages[k] # config.plugin_host => Called(config.packages[k])

\* C4 witness: git is absent for the first package (its git init and git add
\* raise FileNotFoundError), the package succeeded and the next one has begun
C4_Witness ==
    /\ Len(calls) = 2
    /\ calls[1].git_failed
    /\ calls[1].status = "Success"
    /\ calls[2].status = "running"

\* C5: a failure of the remote-repository step never fails the package.
C5_RemoteFailureNonFatal ==
    \A k \in 1..Len(calls) : calls[k].gh = "failed" => calls[k].status # "Failed"

\* C6: apply_theme on a missing theme directory raises FileNotFoundError in the
\* step that resolves the directory, which writes no file and creates no
\* directory; the files of the themes applied before are all still there
\* when the error has left the call.
C6_MissingThemeWritesNothing ==
    /\ [][(pc = "apply_theme" /\ ~store[theme_name].exists) =>
            /\ pc' = "raised"
            /\ exc'.type = "FileNotFoundError"
            /\ files' = files
            /\ dirs' = dirs]_vars
    /\ [](exc.origin = "theme" => trail = <<>>)
    /\ []((exc.origin = "theme" /\ calls # <<>>) =>
            \A k \in 1..Len(Last(calls).themes) :
                \A t \in store[Last(calls).themes[k]].templates :
                    OutputPath(PkgPath(context), RewriteParts(t, context.import_name))
                        \in DOMAIN files)

\* C6 witness: the role theme is missing after the base theme wrote its files
C6_Witness ==
    /\ pc = "raised"
    /\ exc.origin = "theme"
    /\ Last(calls).themes = <<"default">>
    /\ Cardinality(DOMAIN files) = 2

\* the text the last successful write among the first n entries of the trail
\* gave to path p
RECURSIVE GivenText(_, _)
GivenText(n, p) ==
    IF n = 0 THEN Empty
    ELSE IF trail[n].path = p /\ trail[n].did = "written"
         THEN Render(theme_name, trail[n].template, context)
         ELSE GivenText(n - 1, p)

\* an apply_theme call has been stopped by an error of one of its templates
Stopped == pc = "raised" /\ trail # <<>>

\* the first error stops the call: the failing template is the last one
\* handled, all before it were written, none after it was touched
StopsAtFirstError ==
    Stopped =>
        /\ Last(trail).did # "written"
        /\ Last(trail).template = Head(todo)
        /\ \A j \in 1..(Len(trail) - 1) : trail[j].did = "written"
        /\ Len(trail) - 1 + Len(todo) = Cardinality(store[theme_name].templates)
        /\ \A j \in 1..Len(trail) : \A i \in 2..Len(todo) : trail[j].template # todo[i]

\* C7 as stated: the first error stops the call, and every file written before
\* the failure has the text it was given.
C7_FirstErrorStopsKeepsFiles ==
    /\ StopsAtFirstError
    /\ Stopped =>
         \A j \in 1..(Len(trail) - 1) :
            /\ trail[j].path \in DOMAIN files
            /\ files[trail[j].path] = GivenText(Len(trail) - 1, trail[j].path)

\* C7 amended: the first error stops the call, and every file written before
\* the failure at a path other than the failing template's own output path has
\* the text it was given; a file at the failing template's output path still
\* exists, with that text or truncated by the failed write.
C7_FirstErrorStopsKeepsOtherFiles ==
    /\ StopsAtFirstError
    /\ Stopped =>
         \A j \in 1..(Len(trail) - 1) :
            /\ trail[j].path \in DOMAIN files
            /\ trail[j].path # Last(trail).path =>
                 files[trail[j].path] = GivenText(Len(trail) - 1, trail[j].path)
            /\ trail[j].path = Last(trail).path =>
                 files[trail[j].path] \in {GivenText(Len(trail) - 1, trail[j].path), Empty}

\* C7 witness: the third template fails at rendering after two were written
C7_Witness ==
    /\ Stopped
    /\ Len(trail) = 3
    /\ exc.origin = "render"
    /\ files[trail[1].path] = Render(theme_name, trail[1].template, context)
    /\ files[trail[2].path] = Render(theme_name, trail[2].template, context)

OutputPaths ==
    {OutputPath(PkgPath(context), RewriteParts(t, context.import_name)) :
        t \in store[theme_name].templates}

\* C8 as stated: after a successful apply_theme into an empty target there are
\* as many files as the theme has templates.
C8_OneFilePerTemplate ==
    pc = "returned" => Cardinality(DOMAIN files) = Cardinality(store[theme_name].templates)

\* C8 amended: after a successful apply_theme into an empty target the files
\* are exactly the output paths of the templates, each with the text of a
\* template of that path; there are as many files as templates when no two
\* templates have the same output path, and fewer otherwise.
C8_OneFilePerOutputPath ==
    pc = "returned" =>
        /\ DOMAIN files = OutputPaths
        /\ \A p \in DOMAIN files :
             \E t \in store[theme_name].templates :
                /\ OutputPath(PkgPath(context), RewriteParts(t, context.import_name)) = p
                /\ files[p] = Render(theme_name, t, context)
        /\ Cardinality(DOMAIN files) <= Cardinality(store[theme_name].templates)
        /\ (Cardinality(DOMAIN files) = Cardinality(store[theme_name].templates)) <=>
             (\A t, u \in store[theme_name].templates :
                 t # u => OutputPath(PkgPath(context), RewriteParts(t, context.import_name))
                          # OutputPath(PkgPath(context), RewriteParts(u, context.import_name)))

\* C8 witness: three templates, three files
C8_Witness ==
    /\ pc = "returned"
    /\ Cardinality(store[theme_name].templates) = 3
    /\ Cardinality(DOMAIN files) = 3

\* C9: a segment that begins with the hidden marker has that leading marker
\* replaced by one dot and the rest kept (up to the package-name rule); any
\* other segment is left alone by the hidden rule.
C9_HiddenRule ==
    pc = "rewritten" =>
        \A k \in 1..Len(template_file) :
            LET seg == template_file[k]
                rest == SubSeq(seg, Len(Hidden) + 1, Len(seg))
            IN  IF StartsWith(seg, Hidden)
                THEN Replace(parts[k], PackageName, context.import_name)
                        = Replace(Dot \o rest, PackageName, context.import_name)
                ELSE parts[k] = Replace(seg, PackageName, context.import_name)

\* C10: after the rewriting no segment holds the package-name placeholder.
C10_PackageNameRule ==
    pc = "rewritten" =>
        /\ \A k \in 1..Len(parts) : ~Contains(parts[k], PackageName)
        /\ \A k \in 1..Len(output_path) : ~Contains(output_path[k], PackageName)

\* C11: the output path has the segments of the rewritten path, the last one
\* without its trailing ".j2" and nothing else removed, the others as they are.
C11_SuffixRule ==
    pc = "rewritten" =>
        /\ Len(output_path) = Len(parts)
        /\ \A k \in 1..(Len(parts) - 1) : output_path[k] = parts[k]
        /\ Last(output_path) \o J2 = Last(parts)

\* C12: the rewriting applied to a path it produced returns that path.
C12_Idempotent ==
    pc = "rewritten twice" => output_path = template_file

\* the order of the characters that begin the tokens of the catalog
TokenRank(t) ==
    CASE t = "." -> 1
      [] t = "README" -> 2
      [] t = "_" -> 3
      [] t = "__init__" -> 4
      [] t = "__package_name__" -> 5
      [] t = "__version__" -> 6
      [] t = "a" -> 7
      [] t = "gitignore" -> 8
      [] t = "hidden" -> 9
      [] t = "host" -> 10
      [] t = "j2" -> 11
      [] t = "md" -> 12
      [] t = "py" -> 13
      [] t = "src" -> 14

\* lexical order of two names
RECURSIVE NameLess(_, _)
NameLess(a, b) ==
    IF b = <<>> THEN FALSE
    ELSE IF a = <<>> THEN TRUE
    ELSE IF Head(a) = Head(b) THEN NameLess(Tail(a), Tail(b))
    ELSE TokenRank(Head(a)) < TokenRank(Head(b))

\* lexical order of two paths, segment by segment
RECURSIVE PathLess(_, _)
PathLess(p, q) ==
    IF q = <<>> THEN FALSE
    ELSE IF p = <<>> THEN TRUE
    ELSE IF Head(p) = Head(q) THEN PathLess(Tail(p), Tail(q))
    ELSE NameLess(Head(p), Head(q))

TemplatesOf(p) ==
    {t \in store[theme_name].templates :
        OutputPath(PkgPath(context), RewriteParts(t, context.import_name)) = p}

LexicallyLast(S) == CHOOSE t \in S : \A u \in S : u # t => PathLess(u, t)

\* C13: apply_theme visits the templates in lexical path order, so that every
\* output file ends with the text of the lexically last template of its path,
\* whatever the order of the directory listing.
C13_LexicalOrder ==
    /\ (pc = "template" /\ trail = <<>>) =>
         \A i, j \in 1..Len(todo) : i < j => PathLess(todo[i], todo[j])
    /\ pc = "returned" =>
         \A p \in DOMAIN files :
            files[p] = Render(theme_name, LexicallyLast(TemplatesOf(p)), context)

ApplyingTheme == InPackage /\ pc \in {"apply_theme", "template"}

\* C14: whatever the role and the flags of a package, the first theme applied
\* to it is "default", and no other theme is begun before it is done.
C14_BaseThemeFirst ==
    /\ \A k \in 1..Len(calls) :
         /\ calls[k].themes # <<>> => calls[k].themes[1] = "default"
         /\ calls[k].status = "Success" => calls[k].themes # <<>>
    /\ (ApplyingTheme /\ theme_name = "default") => steps = <<>>
    /\ (ApplyingTheme /\ theme_name # "default") =>
         /\ steps # <<>>
         /\ steps[1] = <<"theme", "default">>

C14_Witness ==
    /\ pc = "template"
    /\ theme_name = "plugin_host"
    /\ trail # <<>>
    /\ steps = << <<"theme", "default">> >>
    /\ config.use_mkdocs

HasTheme(ths, t) == \E i \in 1..Len(ths) : ths[i] = t

\* C15: the "mkdocs" theme is applied to a package exactly when use_mkdocs is
\* set, and then only after the default theme and the role theme.
C15_MkdocsThemeIffFlag ==
    /\ \A k \in 1..Len(calls) :
         /\ HasTheme(calls[k].themes, "mkdocs") => config.use_mkdocs
         /\ calls[k].status = "Success" =>
              (HasTheme(calls[k].themes, "mkdocs") <=> config.use_mkdocs)
         /\ \A i \in 1..Len(calls[k].themes) :
              calls[k].themes[i] = "mkdocs" =>
                 /\ i = 3
                 /\ calls[k].themes[1] = "default"
                 /\ calls[k].themes[2] \in RoleThemes
    /\ (ApplyingTheme /\ theme_name = "mkdocs") =>
         /\ config.use_mkdocs
         /\ Len(steps) = 2
         /\ steps[1] = <<"theme", "default">>
         /\ steps[2][1] = "theme" /\ steps[2][2] \in RoleThemes

C15_Witness ==
    /\ calls # <<>>
    /\ Last(calls).status = "Success"
    /\ Last(calls).themes = <<"default", "package", "mkdocs">>

GitRank(at) ==
    CASE at = "git init" -> 1
      [] at = "git branch" -> 2
      [] at = "git add" -> 3
      [] at = "git commit" -> 4

ThemesBefore(k) ==
    LET I == {i \in 1..(k - 1) : steps[i][1] = "theme"}
    IN  {steps[i][2] : i \in I}

\* C16: the version control steps run only when use_vcs is set, in the order
\* init, branch, add, commit, and only after every theme of the package and
\* the version file: nothing is written by a theme once the first has begun.
C16_VcsStepsLast ==
    /\ pc \in GitSteps => InPackage /\ config.use_vcs
    /\ \A i \in 1..Len(steps) :
         steps[i][1] \in GitSteps =>
            /\ config.use_vcs
            /\ ~ApplyingTheme /\ pc # "version_file"
            /\ \A j \in (i + 1)..Len(steps) :
                 /\ steps[j][1] \notin {"theme", "version_file"}
                 /\ steps[j][1] \in GitSteps => GitRank(steps[i][1]) < GitRank(steps[j][1])
            /\ \E j \in 1..(i - 1) : steps[j][1] = "version_file"
            /\ "default" \in ThemesBefore(i)
            /\ ThemesBefore(i) \cap RoleThemes # {}
            /\ config.use_mkdocs => "mkdocs" \in ThemesBefore(i)
            /\ steps[i][1] # "git init" => steps[i - 1][1] \in GitSteps

C16_Witness ==
    /\ pc = "for"
    /\ steps = << <<"theme", "default">>, <<"theme", "package">>,
                  <<"theme", "mkdocs">>, <<"version_file", "ok">>,
                  <<"git init", "ok">>, <<"git branch", "ok">>,
                  <<"git add", "ok">>, <<"git commit", "ok">> >>

\* the name with every hyphen turned into an underscore
Underscored(n) == [k \in 1..Len(n) |-> IF n[k] = "-" THEN "_" ELSE n[k]]

UnderTargetOfCall(p) ==
    \E k \in 1..Len(calls) : p[1] = Underscored(calls[k].name)

C19_ContextBuiltOnce ==
    /\ [][context' # context => pc = "initialize_package" /\ steps = <<>>]_vars
    /\ []((InPackage /\ pc \in {"apply_theme", "template", "role", "mkdocs", "version_file"}) =>
            /\ context.name = name
            /\ context.import_name = Underscored(name)
            /\ context = GetContext(config, name))

C19_Witness ==
    /\ pc = "template"
    /\ theme_name = "mkdocs"
    /\ trail # <<>>
    /\ Last(trail).did = "written"
    /\ context.name = <<"host", "-", "a">>

\* the paths that the themes of the call k wrote
FilesOfCall(k) ==
    {p \in DOMAIN files :
        /\ files[p] # Empty
        /\ p[1] = PkgPath(GetContext(config, calls[k].name))[1]}

\* C18: two packages never share a target directory: a package that was
\* initialized keeps, in its directory, files rendered for it alone, whatever
\* packages are initialized after it.
C18_ExclusiveTargets ==
    /\ \A j, k \in 1..Len(calls) :
         calls[j].name # calls[k].name =>
            PkgPath(GetContext(config, calls[j].name))
               # PkgPath(GetContext(config, calls[k].name))
    /\ \A k \in 1..Len(calls) :
         calls[k].status = "Success" =>
            \A p \in FilesOfCall(k) : files[p][3] = calls[k].name

\* min_python and max_python of the configuration differ in their major
MajorMismatch ==
    /\ config.max_python # None
    /\ config.max_python[1] # config.min_python[1]

NothingOnDisk == files = <<>> /\ dirs = {}

\* C20: a configuration that cannot be loaded or validated, or whose
\* max_python has another major than min_python, makes the run end in an
\* error at the caller before anything is created on disk.
C20_InvalidConfigAborts ==
    /\ exc.origin = "from_toml" => NothingOnDisk /\ calls = <<>>
    /\ MajorMismatch => NothingOnDisk
    /\ (MajorMismatch /\ Terminal) => pc = "raised"

\* the fields the configuration must give
RequiredKeys ==
    {"packages", "author_name", "author_email", "github_username", "min_python",
     "license", "development_status"}

\* C21: from_toml returns a configuration only when the TOML data has every
\* required field: a missing one ends in a validation error, never in a
\* default.
C21_MissingRequiredFails ==
    pc = "loaded" => RequiredKeys \subseteq data.keys

\* C22: a missing theme ends the whole run: the call that needed it is the
\* last call of initialize_all, no package is initialized after it, and no
\* package whose themes are not all there ends in success.
C22_ThemeErrorFatal ==
    /\ \A k \in 1..Len(calls) :
         calls[k].status = "Failed" => k = Len(calls) /\ pc = "raised"
    /\ exc.origin = "theme" =>
         /\ pc = "raised"
         /\ calls # <<>>
         /\ Last(calls).status = "Failed"
         /\ ~store[theme_name].exists
    /\ \A k \in 1..Len(calls) :
         calls[k].status = "Success" =>
            /\ store["default"].exists
            /\ \A i \in 1..Len(calls[k].themes) : store[calls[k].themes[i]].exists
            /\ config.use_mkdocs => store["mkdocs"].exists

C22_Witness ==
    /\ pc = "raised"
    /\ exc = Exception("FileNotFoundError", "theme")
    /\ Len(calls) = 1
    /\ Len(config.packages) = 2
    /\ ~Called(config.packages[2])
    /\ config.packages[2] # config.packages[1]

\* the output path of a template for the package of a context
OutputOf(ctx, t) == OutputPath(PkgPath(ctx), RewriteParts(t, ctx.import_name))

\* for each theme of a list, the output path of each of its templates
OutputsOf(ctx, ths) ==
    [i \in 1..Len(ths) |-> [t \in store[ths[i]].templates |-> OutputOf(ctx, t)]]

\* the themes that have a template for the path p, given their output paths
ThemesFor(out, p) ==
    {i \in DOMAIN out : \E t \in DOMAIN out[i] : out[i][t] = p}

Max(S) == CHOOSE m \in S : \A i \in S : i <= m

\* C23: when initialize_package has returned, and before another call, a path
\* for which more than one of the applied themes has a template holds the
\* rendering of the theme applied last: every theme writes its files over the
\* ones already there.
C23_LastThemeWins ==
    (calls # <<>> /\ Last(calls).status = "Success") =>
        LET ctx == GetContext(config, Last(calls).name)
            ths == Last(calls).themes
            out == OutputsOf(ctx, ths)
        IN  \A i \in DOMAIN out :
                \A t \in DOMAIN out[i] :
                    LET p == out[i][t]
                        j == Max(ThemesFor(out, p))
                    IN  /\ p \in DOMAIN files
                        /\ \E u \in DOMAIN out[j] :
                             /\ out[j][u] = p
                             /\ files[p] = Render(ths[j], u, ctx)

\* C23 witness: the default and the mkdocs theme both have a template for
\* .gitignore, and the file holds the rendering of mkdocs
C23_Witness ==
    /\ calls # <<>>
    /\ Last(calls).status = "Success"
    /\ Last(calls).themes = <<"default", "plugin", "mkdocs">>
    /\ LET ctx == GetContext(config, Last(calls).name)
       IN  /\ OutputOf(ctx, GitIgnoreHidden) = OutputOf(ctx, GitIgnoreDot)
           /\ files[OutputOf(ctx, GitIgnoreDot)] = Render("mkdocs", GitIgnoreDot, ctx)
           /\ files[OutputOf(ctx, InitPy)] = Render("plugin", InitPy, ctx)

NoDuplicates(sq) == \A i, j \in 1..Len(sq) : i # j => sq[i] # sq[j]

C25_PluginImportName ==
    (InPackage /\ name # <<>> /\ context.name = name) =>
        LET import_name == Underscored(name)
            host == Underscored(config.plugin_host)
        IN  IF config.plugin_host # None /\ StartsWith(import_name, host \o <<"_">>)
            THEN context.plugin_import_name
                    = SubSeq(import_name, Len(host) + 2, Len(import_name))
            ELSE /\ context.plugin_import_name = import_name
                 /\ context.plugin_import_name # <<>>

\* C26: when apply_theme stops because a template failed to render, the
\* failed step has created nothing: every directory of the target is above a
\* file written by an earlier template, and a file at the failing template's
\* output path was written by an earlier template.
C26_RenderFailureLeavesNothing ==
    (pc = "raised" /\ exc.origin = "render") =>
        /\ \A d \in dirs :
             \E j \in 1..(Len(trail) - 1) : d \in Ancestors(Parent(trail[j].path))
        /\ Last(trail).path \in DOMAIN files =>
             \E j \in 1..(Len(trail) - 1) : trail[j].path = Last(trail).path

\* C27: a package that was initialized has its __version__.py; the file is
\* made after the last theme and before the first version control step, and
\* a file that a theme wrote at its path keeps the theme's text.
C27_VersionFile ==
    /\ \A k \in 1..Len(calls) :
         calls[k].status = "Success" =>
            VersionFile(GetContext(config, calls[k].name)) \in DOMAIN files
    /\ \A i \in 1..Len(steps) :
         steps[i][1] = "version_file" =>
            /\ \A j \in 1..(i - 1) : steps[j][1] = "theme"
            /\ \A j \in (i + 1)..Len(steps) : steps[j][1] \in GitSteps \cup {"gh"}
            /\ ~ApplyingTheme
    /\ (pc \in GitSteps \cup {"gh"}) => \E i \in 1..Len(steps) : steps[i][1] = "version_file"
    /\ (calls # <<>> /\ Last(calls).status = "Success") =>
         LET ctx == GetContext(config, Last(calls).name)
             ths == Last(calls).themes
             out == OutputsOf(ctx, ths)
             p == VersionFile(ctx)
             js == ThemesFor(out, p)
         IN  /\ \E i \in 1..Len(steps) : steps[i][1] = "version_file"
             /\ IF js = {}
                THEN files[p] = Empty
                ELSE \E u \in DOMAIN out[Max(js)] :
                        /\ out[Max(js)][u] = p
                        /\ files[p] = Render(ths[Max(js)], u, ctx)

\* C27 witness: the plugin_host theme wrote __version__.py, and its text is
\* still there when the package is done, version control included
C27_Witness ==
    /\ pc = "for"
    /\ calls # <<>>
    /\ Last(calls).status = "Success"
    /\ config.use_vcs
    /\ LET ctx == GetContext(config, Last(calls).name)
       IN  /\ OutputOf(ctx, VersionPy) = VersionFile(ctx)
           /\ files[VersionFile(ctx)] = Render("plugin_host", VersionPy, ctx)

Ran(at) == \E i \in 1..Len(steps) : steps[i][1] = at

\* git init has failed in the running call, and the staging and commit block
\* is behind
AfterFailedInit ==
    /\ \E i \in 1..Len(steps) : steps[i] = <<"git init", "failed">>
    /\ pc \notin {"git add", "git commit"}

\* C28: when git init fails the branch rename is not run, staging and commit
\* are both run, and the remote repository is attempted when a GitHub
\* user name is configured.
C28_AfterFailedInitAllRun ==
    /\ (\E i \in 1..Len(steps) : steps[i] = <<"git init", "failed">>) => ~Ran("git branch")
    /\ AfterFailedInit =>
         /\ Ran("git add")
         /\ Ran("git commit")
         /\ (config.github_username # <<>> /\ pc # "gh") => Ran("gh")

\* C28, as the code has it: staging is run, the commit is run when staging
\* succeeded (both are in one try block), and the remote repository is
\* attempted exactly when a GitHub user name is configured.
C28_AfterFailedInitStagingRuns ==
    /\ (\E i \in 1..Len(steps) : steps[i] = <<"git init", "failed">>) =>
         /\ ~Ran("git branch")
         /\ pc # "git branch"
    /\ AfterFailedInit =>
         /\ Ran("git add")
         /\ Ran("git commit") <=> (\E i \in 1..Len(steps) : steps[i] = <<"git add", "ok">>)
         /\ (config.github_username # <<>> /\ pc # "gh") => Ran("gh")
         /\ config.github_username = <<>> => ~Ran("gh") /\ pc # "gh"

C28_Witness ==
    /\ pc = "for"
    /\ steps = << <<"theme", "default">>, <<"theme", "package">>, <<"version_file", "ok">>,
                  <<"git init", "failed">>, <<"git add", "ok">>, <<"git commit", "ok">>,
                  <<"gh", "ok">> >>

\* the keys generate_config has a default for
DefaultedKeys(type) ==
    {"name", "min_python", "license", "development_status", "use_mkdocs",
     "use_semver", "use_vcs", "dependencies", "dev_dependencies",
     "plugin_dependencies"} \cup (IF type = "plugin" THEN {"plugin_host"} ELSE {})

DocumentedDefault(k) ==
    CASE k = "name" -> <<"my", "-", "package">>
      [] k = "plugin_host" -> <<"my", "-", "plugin", "-", "host">>
      [] k = "min_python" -> <<"3", ".", "10">>
      [] k = "license" -> <<"MIT">>
      [] k = "development_status" -> <<"4 - Beta">>
      [] k = "use_mkdocs" -> <<"False">>
      [] k \in {"use_semver", "use_vcs"} -> <<"True">>
      [] OTHER -> <<"[]">>

\* the caller of generate_config gave no value for the key
NotSupplied(k) == k \notin OptionKeys \/ data[k] = None

\* C29: the context that generate_config renders in non-interactive mode has
\* a value other than None for every key with a default, and the documented
\* default where the caller gave no value, None included.
C29_DefaultsForMissing ==
    pc = "rendered" =>
        \A k \in DefaultedKeys(data.type) :
            /\ k \in DOMAIN context
            /\ context[k] # None
            /\ NotSupplied(k) => context[k] = DocumentedDefault(k)

\* the user gave no maximum: declined at the prompt, or passed no option
NoMaxGiven ==
    IF data.interactive THEN ~data.asked_max ELSE data.max_python = None

\* C30: when the user gave no maximum Python version, the max_python that
\* init hands to generate_config is None.
C30_NoMaxUnlessGiven ==
    (pc \in {"python_version_info", "defaults", "rendered"} /\ NoMaxGiven) =>
        context["max_python"] = None

====
